---- MODULE Spec2Model ----
(***************************************************************************)
(* Arbitrage detection engine of real_time_dex_arbitrage_bot:              *)
(* services/engine/arb_loop.py (supervisor loop, scan_once,                *)
(* evaluate_and_alert, cooldown registry), the quote adapters              *)
(* services/ingestors/zeroex.py and aerodrome_router.py, the fixed-point   *)
(* helpers of services/engine/pricing.py and gas.py, the alerter           *)
(* services/alerts/email.py and the sink services/storage/postgres.py.     *)
(*                                                                         *)
(* One asyncio task runs main(); the state changes only between awaits,    *)
(* so every action below is the code between two suspension points.        *)
(***************************************************************************)
EXTENDS Integers, Sequences, FiniteSets, TLC

VARIABLES
    cfg,         \* configuration read once at start-up (pairs, sizes, sources, DSN)
    pc,          \* where the task main() is suspended
    pos,         \* scan_once loop position: pair index, size index, family, iteration
    qa,          \* local qa of scan_once (leg A quote or None)
    qb,          \* local qb of scan_once (leg B quote or None)
    now,         \* last reading of the wall clock (time.time())
    LAST_ALERT,  \* _LAST_ALERT: route key -> instant of the last allowed publication
    opps,        \* local opps of scan_once: Opportunities staged by this scan
    sink,        \* rows committed to the opportunities table, in insertion order
    alerts,      \* alerts delivered (email_alert.send returned) during the current scan
    exc,         \* exception that ended the last scan_once ("none" when it returned)
    enum,        \* history: aggregator x aggregator routes enumerated by this scan
    lab          \* a call of a pure function followed on its own: its arguments,
                 \* its progress and its result (Idle while the engine runs)

vars == <<cfg, pc, pos, qa, qb, now, LAST_ALERT, opps, sink, alerts, exc, enum, lab>>

-----------------------------------------------------------------------------
(* Bounds of the model *)

\* The clock is followed for MaxTick ticks after start-up; later instants are
\* identified with the last one.
MaxTick == 2

-----------------------------------------------------------------------------
(* Decimal: m * 10^(-e), the value of a decimal.Decimal.  The context      *)
(* precision is 60 digits (pricing.py), far more than any value of the     *)
(* model, so sums, differences and products are exact.                     *)

RECURSIVE Pow10(_)
Pow10(n) == IF n = 0 THEN 1 ELSE 10 * Pow10(n - 1)

Dec(m, e) == [m |-> m, e |-> e]

\* the values a Decimal takes; the operations on them are functions of their
\* operands' values
Decimal == [m : Int, e : Nat]

\* same value with the trailing zeros of the coefficient dropped
DecNorm[x \in Decimal] ==
    IF x.e > 0 /\ x.m % 10 = 0 THEN DecNorm[Dec(x.m \div 10, x.e - 1)] ELSE x

Max(a, b) == IF a >= b THEN a ELSE b
Min(a, b) == IF a <= b THEN a ELSE b

\* coefficient of x at exponent e >= x.e
Coef(x, e) == x.m * Pow10(e - x.e)

DecSub[x \in Decimal, y \in Decimal] == LET e == Max(x.e, y.e) IN DecNorm[Dec(Coef(x, e) - Coef(y, e), e)]
DecMul[x \in Decimal, y \in Decimal] == DecNorm[Dec(x.m * y.m, x.e + y.e)]
DecLT[x \in Decimal, y \in Decimal]  == LET e == Max(x.e, y.e) IN Coef(x, e) < Coef(y, e)
DecEQ[x \in Decimal, y \in Decimal]  == LET e == Max(x.e, y.e) IN Coef(x, e) = Coef(y, e)
DecGE[x \in Decimal, y \in Decimal]  == ~DecLT[x, y]
DecZero      == Dec(0, 0)

Abs(n) == IF n < 0 THEN -n ELSE n
Sign(n) == IF n < 0 THEN -1 ELSE 1

\* number of decimal digits of n > 0; 0 for 0
RECURSIVE NumDigits(_)
NumDigits(n) == IF n = 0 THEN 0 ELSE 1 + NumDigits(n \div 10)

\* x / y where the quotient has finitely many digits, as it has for the sizes
\* of the model: for a divisor 2^a * 5^b at most 4 digits per digit of the
\* divisor are needed, far fewer than the 60 of the context
DecDiv[x \in Decimal, y \in Decimal] ==
    LET k == CHOOSE i \in 0..(4 * NumDigits(Abs(y.m))) : (x.m * Pow10(i)) % Abs(y.m) = 0
        q == Sign(y.m) * ((x.m * Pow10(k)) \div Abs(y.m))
        e == x.e - y.e + k
    IN IF e >= 0 THEN DecNorm[Dec(q, e)] ELSE Dec(q * Pow10(-e), 0)

\* integer quotient rounded toward minus infinity
FloorDiv(a, b) == a \div b

\* integer quotient rounded toward zero
TruncDiv(a, b) == IF a >= 0 THEN a \div b ELSE -((-a) \div b)

\* pricing.to_wei: (amt * 10^decimals).to_integral_value(ROUND_DOWN)
to_wei(amount, decimals) == TruncDiv(amount.m * Pow10(decimals), Pow10(amount.e))

\* from_wei of the magnitude
from_wei_abs(amount_wei, decimals) ==
    DecNorm[Dec(IF amount_wei < 0 THEN -amount_wei ELSE amount_wei, decimals)]

\* from_wei in whole tokens, the fraction dropped
from_wei_whole(amount_wei, decimals) == Dec(TruncDiv(amount_wei, Pow10(decimals)), 0)

\* pricing.from_wei: Decimal(amount_wei) / 10^decimals
from_wei(amount_wei, decimals) == DecNorm[Dec(amount_wei, decimals)]

\* the coefficient without its trailing zeros
RECURSIVE Strip(_)
Strip(n) == IF n # 0 /\ n % 10 = 0 THEN Strip(n \div 10) ELSE n

\* number of trailing zeros of n
RECURSIVE TrailingZeros(_)
TrailingZeros(n) == IF n # 0 /\ n % 10 = 0 THEN 1 + TrailingZeros(n \div 10) ELSE 0

\* gas.wei_to_eth: Decimal(wei) / 10^18
wei_to_eth(wei) == DecNorm[Dec(wei, 18)]

\* wei_to_eth(gas_units * gas_price_wei), line 79.  Python's integers are
\* unbounded: the product is held as a coefficient and a power of ten, the
\* trailing zeros of the factors going to the exponent.
gas_cost_eth(gas_units, gas_price_wei) ==
    LET z == TrailingZeros(gas_units) + TrailingZeros(gas_price_wei)
        c == Strip(gas_units) * Strip(gas_price_wei)
    IN IF z = 0 THEN wei_to_eth(c)
       ELSE IF z <= 18 THEN DecNorm[Dec(c, 18 - z)]
       ELSE Dec(c * Pow10(z - 18), 0)

-----------------------------------------------------------------------------
(* Thresholds (arb_loop.py 24-31); each is the default of its environment  *)
(* variable, except ALERT_COOLDOWN_S, which is set to a window of two      *)
(* ticks of the model's clock.                                             *)

DEF_MEV_BPS      == Dec(5, 0)
MIN_PROFIT_USD   == Dec(1, 0)
MIN_ROI_BPS      == Dec(5, 0)
ETH_USD          == Dec(0, 0)
USD_PER_BASE     == Dec(10, 1)
ALERT_COOLDOWN_S == 2
DefaultGas       == 250000

\* time.time() at start-up: seconds since the epoch, far beyond any cooldown;
\* the least such instant is taken.
StartTime == ALERT_COOLDOWN_S
MaxTime   == StartTime + MaxTick

-----------------------------------------------------------------------------
(* Configuration (configs/tokens.base.yml, configs/pairs.base.yml, env)    *)

AERO == "Aerodrome_V1"

\* tokens and pairs: one stable base with two decimals
PairList == << [base |-> "USDC", quote |-> "WETH", decimals |-> 2] >>

\* A market: the size traded and the amounts a venue may answer with.
\* Leg A buys the quote token: a negative amount, none, or 3 units.
\* Leg B buys the base token back: a negative amount, none, one amount just
\* under the gate and one exactly at the gate.
\*   size 100:   sell 10000,   MEV cut 0.05; 10105 nets 1.00 USD (100 bps),
\*               10050 nets 0.45 USD (45 bps: only the USD gate misses)
\*   size 10000: sell 1000000, MEV cut 5;    1001000 nets 5 USD (5 bps),
\*               1000700 nets 2 USD (2 bps: only the ROI gate misses)
Small == [sizes |-> << Dec(100, 0) >>,
          amounts |-> [A |-> {-1, 0, 3}, B |-> {-1, 0, 10050, 10105}]]
Large == [sizes |-> << Dec(10000, 0) >>,
          amounts |-> [A |-> {-1, 0, 3}, B |-> {-1, 0, 1000700, 1001000}]]

\* 1000 tokens of a base with six decimals; leg B returns 1005 tokens
Golden == [sizes |-> << Dec(1000, 0) >>,
           amounts |-> [A |-> {3}, B |-> {1005000000}]]

\* rpc: RPC_URL is set and the router and factory addresses are well formed
\* (what AerodromeRouter.__init__ needs)
Config(market, sources, dsn) ==
    [pairs |-> PairList, sizes |-> market.sizes, amounts |-> market.amounts,
     sources |-> sources, dsn |-> dsn, rpc |-> TRUE]

\* the same configuration without RPC_URL (or with a malformed router address)
NoRpc(c) == [c EXCEPT !.rpc = FALSE]

\* the base token with six decimals, as USDC has
SixDecimals(c) == [c EXCEPT !.pairs = << [base |-> "USDC", quote |-> "WETH", decimals |-> 6] >>]

\* one source with and without a Sink and at both sizes, one source named
\* twice, two sources (six routes) without a Sink, and one source without
\* the router's RPC endpoint; two sources at the golden size; the router's
\* own tag as the one source of the aggregator
Configs ==
    { Config(m, <<"Uniswap_V3">>, d) : m \in {Small, Large}, d \in BOOLEAN }
    \cup { Config(Small, <<"Uniswap_V3", "Uniswap_V3">>, TRUE),
           Config(Small, <<"Uniswap_V3", "SushiSwap">>, FALSE),
           Config(Small, <<AERO>>, FALSE),
           NoRpc(Config(Small, <<"Uniswap_V3">>, TRUE)),
           SixDecimals(Config(Golden, <<"Uniswap_V3", "SushiSwap">>, FALSE)) }

-----------------------------------------------------------------------------
(* Quote adapters *)

None  == [kind |-> "None"]
Raise == [kind |-> "raise"]

\* dict.get(f) with 0 for every default
GetOrZero(q, f, d) == IF f \in DOMAIN q THEN q[f] ELSE 0

\* dict.get(f, d)
Get(q, f, d) == IF f \in DOMAIN q THEN q[f] ELSE d

\* What the 0x endpoint may do with one request: the transport fails, it
\* answers with another status than 200, with a body that does not parse,
\* with a JSON object without buyAmount, or with a buyAmount.
ZeroExResponses(amounts) ==
    { [net |-> "error"],
      [net |-> "ok", status |-> 429],
      [net |-> "ok", status |-> 200, json |-> FALSE],
      [net |-> "ok", status |-> 200, json |-> TRUE, q |-> [sources |-> <<>>]] }
    \cup { [net |-> "ok", status |-> 200, json |-> TRUE, q |-> [buyAmount |-> v]] :
           v \in amounts }

\* ZeroEx.quote (zeroex.py 28-57): client.get raises on a transport error,
\* r.json() and int() raise on a body that does not parse; nothing is caught.
ZeroExQuote(r) ==
    IF r.net # "ok" THEN Raise
    ELSE IF r.status # 200 THEN None
    ELSE IF ~r.json THEN Raise
    ELSE [kind       |-> "quote",
          buy_amount |-> Get(r.q, "buyAmount", 0),
          gas        |-> Get(r.q, "gas", DefaultGas),
          gas_price  |-> Get(r.q, "gasPrice", 0),
          protocol   |-> "0x"]

\* the attempts with the 3-field shape tried first
AttemptThreeFieldFirst(i, stable) ==
    [use_factory |-> i > 2, st |-> IF i % 2 = 1 THEN stable ELSE ~stable]

\* the attempts without the fallback from stable to not stable
AttemptStableOnly(i, stable) == [use_factory |-> i <= 2, st |-> stable]

\* The four getAmountsOut attempts of AerodromeRouter.quote, in order:
\* (4-field, stable), (4-field, not stable), (3-field, stable), (3-field, not stable)
Attempt(i, stable) == [use_factory |-> i <= 2,
                       st          |-> IF i % 2 = 1 THEN stable ELSE ~stable]

Throw       == [out |-> "throw"]
Amounts(sq) == [out |-> "amounts", amounts |-> sq]

\* What the router may do with the four calls: every call before the first
\* success throws or returns an empty array; a success returns
\* [amount in, amount out] (uint256 values); the calls after the first success
\* are never made.
RouterResponses(amounts) ==
    { [i \in 1..4 |-> IF first # 0 /\ i >= first THEN Amounts(<<1, v>>) ELSE fail] :
      first \in 0..4, v \in {a \in amounts : a >= 0}, fail \in {Throw, Amounts(<<>>)} }

RECURSIVE AeroAttempts(_, _, _)
AeroAttempts(resp, stable, i) ==
    IF i > 4 THEN None
    ELSE LET a == Attempt(i, stable)
             r == resp[i]
         IN IF r.out = "amounts" /\ Len(r.amounts) >= 2
            THEN [kind       |-> "quote",
                  buy_amount |-> r.amounts[Len(r.amounts)],
                  protocol   |-> IF a.use_factory THEN "Aerodrome_V1_4f" ELSE "Aerodrome_V1_3f",
                  stable     |-> a.st]
            ELSE AeroAttempts(resp, stable, i + 1)

\* AerodromeRouter.quote (aerodrome_router.py 62-87), stable defaulting to True
AerodromeQuote(resp) == AeroAttempts(resp, TRUE, 1)

\* a provider is a pinned 0x client or the router
Ox(src)  == [type |-> "0x", src |-> src]
AeroProv == [type |-> "aero", src |-> AERO]

Responses(provider, amounts) ==
    IF provider.type = "0x" THEN ZeroExResponses(amounts) ELSE RouterResponses(amounts)

ProviderQuote(provider, resp) ==
    IF provider.type = "0x" THEN ZeroExQuote(resp) ELSE AerodromeQuote(resp)

\* _try_leg without its except clause: the exception goes on to scan_once
TryLegReraise == Raise

\* _try_leg (arb_loop.py 41-50) when provider.quote raised: the except clause
\* logs and returns None
TryLegExcept == None

\* Python truth of a quote: None is false, a dict with keys is true
Truthy(q) == q.kind = "quote"

-----------------------------------------------------------------------------
(* Cooldown key *)

\* str(Decimal) of a non-negative decimal
DecStr(d) ==
    IF d.e = 0 THEN ToString(d.m)
    ELSE LET frac == d.m % Pow10(d.e)
             pad[k \in 0..d.e] ==
                 IF k = 0 THEN ""
                 ELSE pad[k - 1] \o ToString((frac \div Pow10(d.e - k)) % 10)
         IN ToString(d.m \div Pow10(d.e)) \o "." \o pad[d.e]

PairName(p) == p.base \o "/" \o p.quote

\* a key of pair and size alone
AlertKeyPairSize(pair, size, leg_a, leg_b) == pair \o "|" \o DecStr(size)

\* _alert_key (arb_loop.py 37-38)
AlertKey(pair, size, leg_a, leg_b) ==
    pair \o "|" \o DecStr(size) \o "|" \o leg_a \o "->" \o leg_b

\* _LAST_ALERT.get(key, 0)
LastAlert(key) == IF key \in DOMAIN LAST_ALERT THEN LAST_ALERT[key] ELSE 0

-----------------------------------------------------------------------------
(* Profit model: evaluate_and_alert, lines 71-95 *)

\* int(qa.get("gas_price", 0) or qb.get("gas_price", 0) or 0)
GasPrice(a, b) ==
    IF Get(a, "gas_price", 0) # 0 THEN Get(a, "gas_price", 0)
    ELSE IF Get(b, "gas_price", 0) # 0 THEN Get(b, "gas_price", 0) ELSE 0

\* lines 71-91 with ETH_USD as eth_usd
ProfitAt(size_units, base_decimals, a, b, eth_usd) ==
    LET out_back_wei    == b.buy_amount
        sell_amount_wei == to_wei(size_units, base_decimals)
        profit_wei      == out_back_wei - sell_amount_wei
        profit_base     == from_wei(profit_wei, base_decimals)
        gas_units       == Get(a, "gas", DefaultGas) + Get(b, "gas", DefaultGas)
        gas_price_wei   == GasPrice(a, b)
        gas_eth         == IF gas_price_wei # 0 THEN gas_cost_eth(gas_units, gas_price_wei)
                           ELSE DecZero
        gas_usd         == IF DecLT[DecZero, eth_usd] THEN DecMul[gas_eth, eth_usd]
                           ELSE DecZero
        mev_cut         == DecMul[size_units, Dec(DEF_MEV_BPS.m, DEF_MEV_BPS.e + 4)]
        net_base_mev    == DecSub[profit_base, mev_cut]
        net_usd         == DecSub[DecMul[net_base_mev, USD_PER_BASE], gas_usd]
    IN [profit_base |-> profit_base, gas_usd |-> gas_usd, net_usd |-> net_usd]

Profit(size_units, base_decimals, a, b) ==
    ProfitAt(size_units, base_decimals, a, b, ETH_USD)

\* roi_net_bps < min, with roi_net_bps = net_usd / (size * USD_PER_BASE) * 10000
\* when size > 0 and 0 otherwise.  The quotient is compared by cross
\* multiplication: the 60-digit rounding of the division cannot move a
\* quotient of these magnitudes across a threshold.
RoiBelow(net_usd, size_units, min) ==
    IF DecLT[DecZero, size_units]
    THEN DecLT[DecMul[net_usd, Dec(10000, 0)], DecMul[min, DecMul[size_units, USD_PER_BASE]]]
    ELSE DecLT[DecZero, min]

\* gross_bps (line 84)
GrossBps(profit_base, size_units) ==
    IF DecLT[DecZero, size_units]
    THEN DecMul[DecDiv[profit_base, size_units], Dec(10000, 0)]
    ELSE DecZero

\* roi_net_bps (line 91)
RoiNetBps(net_usd, size_units) ==
    IF DecLT[DecZero, size_units]
    THEN DecMul[DecDiv[net_usd, DecMul[size_units, USD_PER_BASE]], Dec(10000, 0)]
    ELSE DecZero

\* the gate with its ROI test left out
GatePassUsdOnly(net_usd, size_units) == ~DecLT[net_usd, MIN_PROFIT_USD]

\* the threshold gate of line 94, negated: the evaluation goes on
GatePass(net_usd, size_units) ==
    ~(DecLT[net_usd, MIN_PROFIT_USD] \/ RoiBelow(net_usd, size_units, MIN_ROI_BPS))

\* the cooldown test with <= for <
InCooldownInclusive(t, last) == t - last <= ALERT_COOLDOWN_S

\* the cooldown test of line 100
InCooldown(t, last) == t - last < ALERT_COOLDOWN_S

-----------------------------------------------------------------------------
(* scan_once: route enumeration *)

NSources == Len(cfg.sources)

End == [pi |-> 0, si |-> 0, fam |-> 0, k |-> 0]

\* the first iteration of the loops for (pair pi, size si): family 1, product index 1
Begin(pi, si) == [pi |-> pi, si |-> si, fam |-> 1, k |-> 1]

\* family 1 walks product(source_list, source_list) in row order (k = 1..n*n),
\* family 2 walks source_list (k = 1..n) with the router as leg B,
\* family 3 asks the router once for leg A (k = 0), then walks source_list for leg B
LegATag(p) ==
    IF p.fam = 1 THEN cfg.sources[((p.k - 1) \div NSources) + 1]
    ELSE IF p.fam = 2 THEN cfg.sources[p.k] ELSE AERO

LegBTag(p) ==
    IF p.fam = 1 THEN cfg.sources[((p.k - 1) % NSources) + 1]
    ELSE IF p.fam = 2 THEN AERO ELSE cfg.sources[p.k]

ProviderA(p) == IF p.fam = 3 THEN AeroProv ELSE Ox(LegATag(p))
ProviderB(p) == IF p.fam = 2 THEN AeroProv ELSE Ox(LegBTag(p))

\* the product walked without the test of line 165
SameSourceIgnored(src_a, src_b) == FALSE

\* line 165: if src_a == src_b: continue
SameSource(src_a, src_b) == src_a = src_b

RECURSIVE FirstAwait(_)
\* From the loop position p, the position of the next adapter call: iterations
\* that "continue" before any await and exhausted loops are passed over.
FirstAwait(p) ==
    IF p.pi > Len(cfg.pairs) THEN End
    ELSE IF p.si > Len(cfg.sizes) THEN FirstAwait(Begin(p.pi + 1, 1))
    ELSE IF p.fam = 1
         THEN IF p.k > NSources * NSources THEN FirstAwait([p EXCEPT !.fam = 2, !.k = 1])
              ELSE IF SameSource(LegATag(p), LegBTag(p))
                   THEN FirstAwait([p EXCEPT !.k = p.k + 1])
                   ELSE p
    ELSE IF p.fam = 2
         THEN IF p.k > NSources THEN [p EXCEPT !.fam = 3, !.k = 0] ELSE p
    ELSE IF p.k > NSources THEN FirstAwait(Begin(p.pi, p.si + 1)) ELSE p

\* the await at which the task stops at position p
PcAt(p) == IF p = End THEN "persist"
           ELSE IF p.fam = 3 /\ p.k >= 1 THEN "legB" ELSE "legA"

NextIter(p) == [p EXCEPT !.k = p.k + 1]

\* the router's leg A of family 3 is reused by every iteration of its loop;
\* elsewhere qa and qb are dead once the iteration ends
KeepsQa(q) == q # End /\ q.fam = 3 /\ q.k >= 1

\* continue with the loops at p; keep is the leg A quote in hand
Goto(p, keep) ==
    LET q == FirstAwait(p)
    IN /\ pos' = q
       /\ pc'  = PcAt(q)
       /\ qa'  = IF KeepsQa(q) THEN keep ELSE None
       /\ qb'  = None

CurPair == cfg.pairs[pos.pi]
CurSize == cfg.sizes[pos.si]
CurKey  == AlertKey(PairName(CurPair), CurSize, LegATag(pos), LegBTag(pos))

\* lines 168, 171, 190, 193, 214: if not q or q["buy_amount"] == 0: continue
LegFailed(q) == ~Truthy(q) \/ q.buy_amount = 0

\* line 211: if qa and qa["buy_amount"] > 0
RouterLegOk(q) == Truthy(q) /\ q.buy_amount > 0

LegAFailed(fam, q) == IF fam = 3 THEN ~RouterLegOk(q) ELSE LegFailed(q)

-----------------------------------------------------------------------------
(* State machine *)

\* no pure function is followed on its own
Idle == [fn |-> "none"]

\* History for the scan under way when lab.fn = "calls": per (pair, size),
\* the adapter calls made so far (n) and those made to the router as leg A
\* (router_a, line 210).
NoCalls == [t \in (1..Len(cfg.pairs)) \X (1..Len(cfg.sizes)) |-> [n |-> 0, router_a |-> 0]]

Counting == [fn |-> "calls", calls |-> NoCalls]

\* one adapter call at the position in hand
Tally ==
    lab' = IF lab.fn = "calls"
           THEN [lab EXCEPT !.calls[<<pos.pi, pos.si>>] =
                     [n |-> @.n + 1,
                      router_a |-> @.router_a + (IF pos.fam = 3 /\ pc = "legA" THEN 1 ELSE 0)]]
           ELSE lab

\* a scan begins
TallyReset == lab' = IF lab.fn = "calls" THEN Counting ELSE lab

\* the process at the entry of main()
Init ==
    /\ cfg \in Configs
    /\ pc = "start"
    /\ pos = End
    /\ qa = None
    /\ qb = None
    /\ now = StartTime
    /\ LAST_ALERT = [k \in {} |-> 0]
    /\ opps = <<>>
    /\ sink = <<>>
    /\ alerts = {}
    /\ exc = "none"
    /\ enum = <<>>
    /\ lab = Idle

\* main, lines 261-278: the arguments are parsed, init_schema() returns at once
\* without a DSN and creates the table if it does not exist otherwise (the
\* rows are left alone), the YAML files are read; nothing here builds the
\* router or looks at RPC_URL
Startup ==
    /\ pc = "start"
    /\ pc' = "scan"
    /\ UNCHANGED <<cfg, lab, pos, qa, qb, now, LAST_ALERT, opps, sink, alerts, exc, enum>>

\* an exception leaves scan_once: its frame (opps, qa, qb) is gone and main's
\* except clause is reached
Propagate(e) ==
    /\ pc' = "raised"
    /\ exc' = e
    /\ pos' = End
    /\ qa' = None
    /\ qb' = None
    /\ opps' = <<>>

\* scan_once, line 150: aero = AerodromeRouter() raises RuntimeError without
\* RPC_URL (aerodrome_router.py 43-44) and ValueError on a malformed address
\* (48-49); it is built anew by every scan
RouterBuilt == cfg.rpc

\* main, line 281 and scan_once up to its first await (lines 144-161)
ScanStart ==
    /\ pc = "scan"
    /\ alerts' = {}
    /\ enum' = <<>>
    /\ IF RouterBuilt
       THEN /\ opps' = <<>>
            /\ exc' = "none"
            /\ Goto(Begin(1, 1), None)
       ELSE Propagate("config")
    /\ TallyReset
    /\ UNCHANGED <<cfg, now, LAST_ALERT, sink>>

\* scan_once once _try_leg has returned r for leg A (lines 167-169, 189-191,
\* 210-211); r is Raise only if _try_leg let the exception through
AfterLegA(r) ==
    IF r.kind = "raise"
    THEN Propagate("quote")
    ELSE /\ UNCHANGED <<opps, exc>>
         /\ IF LegAFailed(pos.fam, r)
            THEN IF pos.fam = 3
                 THEN Goto(Begin(pos.pi, pos.si + 1), None)
                 ELSE Goto(NextIter(pos), None)
            ELSE IF pos.fam = 3
                 THEN Goto(NextIter(pos), r)
                 ELSE /\ qa' = r
                      /\ pc' = "legB"
                      /\ UNCHANGED <<pos, qb>>

\* scan_once once _try_leg has returned r for leg B (lines 170-172, 192-194,
\* 213-215)
AfterLegB(r) ==
    IF r.kind = "raise"
    THEN Propagate("quote")
    ELSE /\ UNCHANGED <<opps, exc>>
         /\ IF LegFailed(r)
            THEN Goto(NextIter(pos), qa)
            ELSE /\ qb' = r
                 /\ pc' = "eval"
                 /\ UNCHANGED <<pos, qa>>

\* family 1 routes in the order their leg A was asked for
Enumerated == IF pos.fam = 1
              THEN Append(enum, <<pos.pi, pos.si, LegATag(pos), LegBTag(pos)>>)
              ELSE enum

\* the await of _try_leg, line 46, is over for leg A: provider.quote returned
\* or raised
LegA ==
    /\ pc = "legA"
    /\ \E resp \in Responses(ProviderA(pos), cfg.amounts.A) :
         LET raw == ProviderQuote(ProviderA(pos), resp)
         IN IF raw.kind = "raise"
            THEN /\ pc' = "exceptA"
                 /\ UNCHANGED <<pos, qa, qb, opps, exc>>
            ELSE AfterLegA(raw)
    /\ enum' = Enumerated
    /\ Tally
    /\ UNCHANGED <<cfg, now, LAST_ALERT, sink, alerts>>

\* _try_leg's except clause for leg A (lines 47-50)
ExceptA ==
    /\ pc = "exceptA"
    /\ AfterLegA(TryLegExcept)
    /\ UNCHANGED <<cfg, lab, now, LAST_ALERT, sink, alerts, enum>>

\* the await of _try_leg is over for leg B, asked for qa["buy_amount"]
LegB ==
    /\ pc = "legB"
    /\ \E resp \in Responses(ProviderB(pos), cfg.amounts.B) :
         LET raw == ProviderQuote(ProviderB(pos), resp)
         IN IF raw.kind = "raise"
            THEN /\ pc' = "exceptB"
                 /\ UNCHANGED <<pos, qa, qb, opps, exc>>
            ELSE AfterLegB(raw)
    /\ Tally
    /\ UNCHANGED <<cfg, now, LAST_ALERT, sink, alerts, enum>>

\* _try_leg's except clause for leg B
ExceptB ==
    /\ pc = "exceptB"
    /\ AfterLegB(TryLegExcept)
    /\ UNCHANGED <<cfg, lab, now, LAST_ALERT, sink, alerts, enum>>

\* the Opportunity of lines 116-134 for the route at hand; fam and ts are
\* history: the family that produced it and the cooldown instant it was
\* allowed at
Opportunity(m, t) ==
    [key        |-> CurKey,
     pair       |-> PairName(CurPair),
     size       |-> CurSize,
     leg_a      |-> LegATag(pos),
     leg_b      |-> LegBTag(pos),
     gross_base |-> m.profit_base,
     gross_bps  |-> GrossBps(m.profit_base, CurSize),
     net_usd    |-> m.net_usd,
     roi_net_bps |-> RoiNetBps(m.net_usd, CurSize),
     gas_usd    |-> m.gas_usd,
     fam        |-> pos.fam,
     ts         |-> t]

\* evaluate_and_alert stamping the key of a route it holds back
EvaluateRestampInCooldown ==
    /\ pc = "eval"
    /\ LET m == Profit(CurSize, CurPair.decimals, qa, qb)
       IN IF ~GatePass(m.net_usd, CurSize)
          THEN /\ Goto(NextIter(pos), qa)
               /\ UNCHANGED LAST_ALERT
          ELSE /\ LAST_ALERT' = [k \in DOMAIN LAST_ALERT \cup {CurKey} |->
                                   IF k = CurKey THEN now ELSE LAST_ALERT[k]]
               /\ IF InCooldown(now, LastAlert(CurKey))
                  THEN Goto(NextIter(pos), qa)
                  ELSE /\ pc' = "send"
                       /\ UNCHANGED <<pos, qa, qb>>
    /\ UNCHANGED <<cfg, lab, now, opps, sink, alerts, exc, enum>>

\* evaluate_and_alert stamping the key before the threshold gate
EvaluateStampOnMiss ==
    /\ pc = "eval"
    /\ LET m == Profit(CurSize, CurPair.decimals, qa, qb)
       IN /\ LAST_ALERT' = [k \in DOMAIN LAST_ALERT \cup {CurKey} |->
                              IF k = CurKey /\ ~InCooldown(now, LastAlert(CurKey))
                              THEN now ELSE LAST_ALERT[k]]
          /\ IF GatePass(m.net_usd, CurSize) /\ ~InCooldown(now, LastAlert(CurKey))
             THEN /\ pc' = "send"
                  /\ UNCHANGED <<pos, qa, qb>>
             ELSE Goto(NextIter(pos), qa)
    /\ UNCHANGED <<cfg, lab, now, opps, sink, alerts, exc, enum>>

\* evaluate_and_alert from its entry to its first await (lines 69-114):
\* profit model, threshold gate, cooldown test and stamp; time.time() reads
\* the clock
Evaluate ==
    /\ pc = "eval"
    /\ LET m == Profit(CurSize, CurPair.decimals, qa, qb)
       IN IF ~GatePass(m.net_usd, CurSize)
          THEN /\ Goto(NextIter(pos), qa)
               /\ UNCHANGED LAST_ALERT
          ELSE IF InCooldown(now, LastAlert(CurKey))
               THEN /\ Goto(NextIter(pos), qa)
                    /\ UNCHANGED LAST_ALERT
               ELSE /\ LAST_ALERT' = [k \in DOMAIN LAST_ALERT \cup {CurKey} |->
                                        IF k = CurKey THEN now ELSE LAST_ALERT[k]]
                    /\ pc' = "send"
                    /\ UNCHANGED <<pos, qa, qb>>
    /\ UNCHANGED <<cfg, lab, now, opps, sink, alerts, exc, enum>>

\* email_alert.send returns; the Opportunity is staged (lines 114-134)
AlertSent ==
    /\ pc = "send"
    /\ alerts' = alerts \cup {[key |-> CurKey, ts |-> LAST_ALERT[CurKey]]}
    /\ opps' = Append(opps, Opportunity(Profit(CurSize, CurPair.decimals, qa, qb),
                                        LAST_ALERT[CurKey]))
    /\ Goto(NextIter(pos), qa)
    /\ UNCHANGED <<cfg, lab, now, LAST_ALERT, sink, exc, enum>>

\* email_alert.send raises (aiosmtplib.send, email.py 24-31); nothing between
\* line 114 and main catches it
AlertFailed ==
    /\ pc = "send"
    /\ Propagate("alert")
    /\ UNCHANGED <<cfg, lab, now, LAST_ALERT, sink, alerts, enum>>

\* the persist block without its test of the connection: conn.cursor() on the
\* None that get_conn yields without a DSN raises
PersistNoConnGuard ==
    /\ pc = "persist"
    /\ IF opps # <<>> /\ ~cfg.dsn
       THEN /\ Propagate("sink")
            /\ UNCHANGED <<cfg, lab, now, LAST_ALERT, sink, alerts, enum>>
       ELSE /\ sink' = IF opps # <<>> THEN sink \o opps ELSE sink
            /\ opps' = <<>>
            /\ pc' = "sleep"
            /\ UNCHANGED <<cfg, lab, pos, qa, qb, now, LAST_ALERT, alerts, exc, enum>>

\* lines 230-257: one connection, one INSERT per staged Opportunity, one commit
Persist ==
    /\ pc = "persist"
    /\ sink' = IF opps # <<>> /\ cfg.dsn THEN sink \o opps ELSE sink
    /\ opps' = <<>>
    /\ pc' = "sleep"
    /\ UNCHANGED <<cfg, lab, pos, qa, qb, now, LAST_ALERT, alerts, exc, enum>>

\* main without its try: the exception ends the process
Unhandled ==
    /\ pc = "raised"
    /\ pc' = "exit"
    /\ UNCHANGED <<cfg, lab, pos, qa, qb, now, LAST_ALERT, opps, sink, alerts, exc, enum>>

\* main, lines 282-283: except Exception: logger.exception(e)
Logged ==
    /\ pc = "raised"
    /\ pc' = "sleep"
    /\ UNCHANGED <<cfg, lab, pos, qa, qb, now, LAST_ALERT, opps, sink, alerts, exc, enum>>

\* main, line 284: asyncio.sleep(1.0) returns, one tick later
Sleep ==
    /\ pc = "sleep"
    /\ now < MaxTime
    /\ now' = now + 1
    /\ pc' = "scan"
    /\ UNCHANGED <<cfg, lab, pos, qa, qb, LAST_ALERT, opps, sink, alerts, exc, enum>>

Next ==
    \/ Startup
    \/ ScanStart
    \/ LegA
    \/ ExceptA
    \/ LegB
    \/ ExceptB
    \/ Evaluate
    \/ AlertSent
    \/ AlertFailed
    \/ Persist
    \/ Logged
    \/ Sleep

Spec == Init /\ [][Next]_vars

\* The supervisor followed without end: past MaxTime the sleep still returns,
\* and every later instant is identified with MaxTime.
SleepOn ==
    /\ pc = "sleep"
    /\ now = MaxTime
    /\ pc' = "scan"
    /\ UNCHANGED <<cfg, lab, pos, qa, qb, now, LAST_ALERT, opps, sink, alerts, exc, enum>>

LiveNext == Next \/ SleepOn

\* a cancellation that commits what the scan had staged, as a finally: would
CancelFlushing ==
    /\ pc \in {"legA", "legB", "send", "sleep"}
    /\ pc' = "cancelled"
    /\ exc' = IF pc = "sleep" THEN "cancelled in sleep" ELSE "cancelled in scan_once"
    /\ pos' = End
    /\ qa' = None
    /\ qb' = None
    /\ sink' = IF cfg.dsn THEN sink \o opps ELSE sink
    /\ opps' = <<>>
    /\ enum' = <<>>
    /\ UNCHANGED <<cfg, lab, now, LAST_ALERT, alerts>>

\* asyncio.run(main()) cancels the task (SIGINT, loop shutdown): CancelledError
\* is raised at the await the task is suspended in, the adapter call of
\* _try_leg, the alert's send or the sleep.  It is a BaseException: neither
\* _try_leg (line 47) nor main (line 282) catches it, the frames of scan_once
\* are dropped and the process ends.
Cancel ==
    /\ pc \in {"legA", "legB", "send", "sleep"}
    /\ pc' = "cancelled"
    /\ exc' = IF pc = "sleep" THEN "cancelled in sleep" ELSE "cancelled in scan_once"
    /\ pos' = End
    /\ qa' = None
    /\ qb' = None
    /\ opps' = <<>>
    /\ enum' = <<>>
    /\ UNCHANGED <<cfg, lab, now, LAST_ALERT, sink, alerts>>

CancelNext == Next \/ Cancel

\* the engine with process-level cancellation
CancelSpec == Init /\ [][CancelNext]_vars

\* one configured source
LiveInit == Init /\ Len(cfg.sources) = 1

\* The event loop runs the only task whenever its await is over, and every
\* await is over in the end (adapter and SMTP timeouts, the sleep).
FairSpec == LiveInit /\ [][LiveNext]_vars /\ WF_vars(LiveNext)

-----------------------------------------------------------------------------
(* Properties *)

\* the profit gate as the specification states it (4.5 step 8)
SpecGate(net_usd, size_units) ==
    /\ DecGE[net_usd, MIN_PROFIT_USD]
    /\ ~RoiBelow(net_usd, size_units, MIN_ROI_BPS)

CurNet  == Profit(CurSize, CurPair.decimals, qa, qb).net_usd
CurGate == SpecGate(CurNet, CurSize)

\* the route key is inside its window at the instant read
CurCooling == now - LastAlert(CurKey) < ALERT_COOLDOWN_S

Rows(sq) == {sq[i] : i \in DOMAIN sq}

\* C1 as stated: an evaluation (of two quotes with positive amounts) goes on
\* to publish if and only if it passes the profit gate.
C1_PublishedIffGate ==
    [][(pc = "eval" /\ qa.buy_amount > 0 /\ qb.buy_amount > 0)
           => ((pc' = "send") <=> CurGate)]_vars

\* C1, amended: an evaluation goes on to publish (stamps its key and sends the
\* alert) if and only if it passes both gates and its key is outside the
\* cooldown window; an Opportunity is staged and an alert recorded only by the
\* return of that send, and every staged or committed Opportunity has
\* net_usd >= MIN_PROFIT_USD and roi_net_bps >= MIN_ROI_BPS.
C1_PublishedOnlyIfGate ==
    [][/\ pc = "eval" => ((pc' = "send") <=> (CurGate /\ ~CurCooling))
       /\ (opps' # opps /\ opps' # <<>>) =>
              /\ pc = "send" /\ CurGate
              /\ opps' = Append(opps, opps'[Len(opps')])
              /\ opps'[Len(opps')].key = CurKey
              /\ SpecGate(opps'[Len(opps')].net_usd, opps'[Len(opps')].size)
       /\ (alerts' # alerts /\ alerts' # {}) => (pc = "send" /\ CurGate)
       /\ sink' # sink => (pc = "persist" /\ sink' = sink \o opps)
      ]_vars

\* a route has been published: its alert went out and its Opportunity is staged
C1_Witness ==
    /\ opps # <<>>
    /\ \E o \in Rows(opps) : [key |-> o.key, ts |-> o.ts] \in alerts

\* C2: a gate-passing attempt made less than ALERT_COOLDOWN_S after an earlier
\* gate-passing attempt for the same key finds exactly one publication of
\* that key in the window: one Opportunity staged or written to the Sink.
C2_ExactlyOnePublication ==
    (pc = "eval" /\ cfg.dsn /\ CurGate /\ LastAlert(CurKey) # 0 /\ CurCooling)
        => Cardinality({i \in DOMAIN (sink \o opps) :
                          /\ (sink \o opps)[i].key = CurKey
                          /\ (sink \o opps)[i].ts = LastAlert(CurKey)}) = 1

\* C3: a gate-passing attempt at instant now is suppressed when
\* now - last[k] < ALERT_COOLDOWN_S (nothing changes but the loop position);
\* otherwise, also at exactly ALERT_COOLDOWN_S and for a key never seen,
\* last[k] becomes now, the other keys keep their instants and the alert is sent.
C3_CooldownDecision ==
    [][(pc = "eval" /\ CurGate) =>
          IF now - LastAlert(CurKey) < ALERT_COOLDOWN_S
          THEN /\ LAST_ALERT' = LAST_ALERT
               /\ pc' # "send"
               /\ opps' = opps /\ alerts' = alerts /\ sink' = sink
          ELSE /\ pc' = "send"
               /\ DOMAIN LAST_ALERT' = DOMAIN LAST_ALERT \cup {CurKey}
               /\ LAST_ALERT'[CurKey] = now
               /\ \A k \in DOMAIN LAST_ALERT : k # CurKey => LAST_ALERT'[k] = LAST_ALERT[k]
      ]_vars

\* a key is allowed again exactly ALERT_COOLDOWN_S after its last publication
C3_Witness ==
    /\ pc = "send"
    /\ LAST_ALERT[CurKey] = now
    /\ \E o \in Rows(sink) : o.key = CurKey /\ o.ts = now - ALERT_COOLDOWN_S

\* C4: when an alert's send has raised, every route the scan allowed
\* (stamped at this scan's instant) is written to the Sink all the same.
C4_AlertFailureContained ==
    (pc = "sleep" /\ exc = "alert" /\ cfg.dsn) =>
        \A k \in DOMAIN LAST_ALERT :
            LAST_ALERT[k] = now => \E o \in Rows(sink) : o.key = k /\ o.ts = now

\* C5: whatever a scan raises, the supervisor logs it, sleeps and calls
\* scan_once again: a scan is started infinitely often.
C5_ScansForever ==
    /\ (pc = "raised") ~> (pc = "scan")
    /\ []<><<ScanStart>>_vars

\* a scan has raised and main's except clause is reached
C5_Witness == pc = "raised" /\ exc = "alert"

C7_NoNonPositiveQuote ==
    /\ Truthy(qa) => qa.buy_amount > 0
    /\ Truthy(qb) => qb.buy_amount > 0

\* C8: leg B is asked only after leg A returned a strictly positive buy_amount.
C8_LegBAfterPositiveLegA ==
    pc \in {"legB", "exceptB", "eval", "send"} => (Truthy(qa) /\ qa.buy_amount > 0)

\* C9: a step in which a leg fails (None, raised, or zero) ends its route
\* and changes nothing else: cooldown map, staged list, alerts, Sink and clock
\* stay as they are, no exception ends the scan, and the scan stands at the
\* next route of the enumeration (after a failed router leg A, past family 3,
\* whose routes all share that leg).
C9_FailingLegContained ==
    [][LET legAFailed == pc \in {"legA", "exceptA"} /\ pc' \notin {"exceptA", "legB"}
           legBFailed == pc \in {"legB", "exceptB"} /\ pc' \notin {"exceptB", "eval"}
           next == IF legAFailed /\ pos.fam = 3
                   THEN FirstAwait(Begin(pos.pi, pos.si + 1))
                   ELSE FirstAwait(NextIter(pos))
       IN /\ (pc = "legA" /\ pos.fam = 3 /\ pc' = "legB") => pos' = NextIter(pos)
          /\ (legAFailed \/ legBFailed) =>
                 /\ pc' # "raised"
                 /\ pos' = next
                 /\ pc' = PcAt(next)
                 /\ UNCHANGED <<LAST_ALERT, opps, alerts, sink, now, exc>>
      ]_vars

\* a leg's quote has raised in a scan that has already published a route
C9_Witness == pc \in {"exceptA", "exceptB"} /\ opps # <<>>

\* C10: once family 1 is through for a pair and size, the routes it asked
\* leg A for are exactly the ordered pairs of distinct configured sources,
\* |sources| * (|sources| - 1) of them (each once when no source is named
\* twice), and every Opportunity of that family has leg_a # leg_b.
C10_AggregatorPairs ==
    LET S == {cfg.sources[i] : i \in DOMAIN cfg.sources}
        Asked(pi, si) == {i \in DOMAIN enum : enum[i][1] = pi /\ enum[i][2] = si}
        Through(pi, si) ==
            \/ pc = "persist"
            \/ /\ pc \in {"legA", "exceptA", "legB", "exceptB", "eval", "send"}
               /\ \/ pos.pi > pi
                  \/ pos.pi = pi /\ pos.si > si
                  \/ pos.pi = pi /\ pos.si = si /\ pos.fam >= 2
    IN /\ \A i \in DOMAIN enum : enum[i][3] # enum[i][4]
       /\ \A pi \in DOMAIN cfg.pairs, si \in DOMAIN cfg.sizes :
              Through(pi, si) =>
                  LET routes == {<<enum[i][3], enum[i][4]>> : i \in Asked(pi, si)}
                  IN /\ routes = {r \in S \X S : r[1] # r[2]}
                     /\ Cardinality(routes) = Cardinality(S) * (Cardinality(S) - 1)
                     /\ Cardinality(S) = NSources =>
                            Cardinality(Asked(pi, si)) = NSources * (NSources - 1)
       /\ \A o \in Rows(opps) \cup Rows(sink) : o.fam = 1 => o.leg_a # o.leg_b

\* family 1 is through with both ordered pairs and one of them is staged
C10_Witness ==
    /\ pc = "persist"
    /\ Len(enum) = 2
    /\ \E o \in Rows(opps) : o.fam = 1

-----------------------------------------------------------------------------
(* Order of publication *)

\* position of a staged or written Opportunity in the enumeration of
\* scan_once: pair, then size, then family, then the source list
PairIndex(name) == CHOOSE i \in DOMAIN cfg.pairs : PairName(cfg.pairs[i]) = name
SizeIndex(size) == CHOOSE i \in DOMAIN cfg.sizes : cfg.sizes[i] = size
SourceIndex(tag) ==
    CHOOSE i \in DOMAIN cfg.sources :
        cfg.sources[i] = tag /\ \A j \in 1..(i - 1) : cfg.sources[j] # tag
RouteRank(o) ==
    ((PairIndex(o.pair) * 10 + SizeIndex(o.size)) * 10 + o.fam) * 100
    + (IF o.fam = 1 THEN (SourceIndex(o.leg_a) - 1) * NSources + SourceIndex(o.leg_b)
       ELSE IF o.fam = 2 THEN SourceIndex(o.leg_a) ELSE SourceIndex(o.leg_b))

\* rows the scan at the present instant has written
WrittenNow == SelectSeq(sink, LAMBDA o : o.ts = now)

\* keys the scan at the present instant has decided to publish
DecidedNow == {k \in DOMAIN LAST_ALERT : LAST_ALERT[k] = now}

\* C11: what a scan writes is fixed by the configuration, the state it
\* started from and the adapters' answers: once it is over, its rows are
\* exactly the routes those made it decide to publish, in the order of the
\* enumeration (pairs, sizes, source list, router routes after the
\* aggregator routes).
C11_WritesFollowDecisions ==
    (pc = "sleep" /\ cfg.dsn) =>
        /\ {WrittenNow[i].key : i \in DOMAIN WrittenNow} = DecidedNow
        /\ \A i, j \in DOMAIN WrittenNow :
               i < j => RouteRank(WrittenNow[i]) < RouteRank(WrittenNow[j])

-----------------------------------------------------------------------------
(* AerodromeRouter.quote followed call by call *)

\* the engine's variables while a pure function is followed on its own
EngineIdle ==
    /\ cfg = Config(Small, <<"Uniswap_V3">>, FALSE)
    /\ pc = "lab"
    /\ pos = End
    /\ qa = None
    /\ qb = None
    /\ now = StartTime
    /\ LAST_ALERT = [k \in {} |-> 0]
    /\ opps = <<>>
    /\ sink = <<>>
    /\ alerts = {}
    /\ exc = "none"
    /\ enum = <<>>

EngineVars == <<cfg, pc, pos, qa, qb, now, LAST_ALERT, opps, sink, alerts, exc, enum>>

Pending == [kind |-> "pending"]

\* what one getAmountsOut call may do: throw (revert, ABI mismatch, RPC
\* error), or return an array of 0, 1, 2 or 3 amounts
CallOutcomes ==
    {Throw, Amounts(<<>>), Amounts(<<7>>), Amounts(<<7, 9>>), Amounts(<<7, 8, 0>>)}

\* a call of quote(sell, buy, amount_in, stable) and what each of the four
\* getAmountsOut calls would do if it were made
RouterInit ==
    /\ EngineIdle
    /\ lab \in {[fn |-> "router", resp |-> r, stable |-> s, i |-> 1,
                 calls |-> <<>>, result |-> Pending] :
                r \in [1..4 -> CallOutcomes], s \in BOOLEAN}

\* one pass of the inner loop (lines 75-86): the call of attempt i is made;
\* amounts of length >= 2 are returned as a quote, anything else goes on
RouterAttempt ==
    /\ lab.fn = "router"
    /\ lab.result = Pending
    /\ lab.i <= 4
    /\ LET a == Attempt(lab.i, lab.stable)
           r == lab.resp[lab.i]
       IN lab' = [lab EXCEPT
                    !.calls = Append(@, a),
                    !.i = @ + 1,
                    !.result =
                        IF r.out = "amounts" /\ Len(r.amounts) >= 2
                        THEN [kind       |-> "quote",
                              buy_amount |-> r.amounts[Len(r.amounts)],
                              protocol   |-> IF a.use_factory THEN "Aerodrome_V1_4f"
                                             ELSE "Aerodrome_V1_3f",
                              stable     |-> a.st]
                        ELSE Pending]
    /\ UNCHANGED EngineVars

\* line 87: both loops are exhausted, return None
RouterExhausted ==
    /\ lab.fn = "router"
    /\ lab.result = Pending
    /\ lab.i > 4
    /\ lab' = [lab EXCEPT !.result = None]
    /\ UNCHANGED EngineVars

RouterNext == RouterAttempt \/ RouterExhausted

RouterSpec == RouterInit /\ [][RouterNext]_vars

\* a getAmountsOut answer the adapter takes for a success
CallSucceeds(r) == r.out = "amounts" /\ Len(r.amounts) >= 2

\* C12: the calls made are a prefix of (4-field, stable), (4-field, not
\* stable), (3-field, stable), (3-field, not stable); every call but the last
\* made failed; a quote is returned by the first call that succeeds, with the
\* last amount of its array; None is returned exactly when all four calls
\* were made and failed; and the result is the one the engine's legs get.
C12_RouterAttemptOrder ==
    lab.fn = "router" =>
        LET n == Len(lab.calls)
        IN /\ \A k \in 1..n :
                  /\ lab.calls[k].use_factory = (k <= 2)
                  /\ lab.calls[k].st = (IF k \in {1, 3} THEN lab.stable ELSE ~lab.stable)
           /\ \A k \in 1..(n - 1) : ~CallSucceeds(lab.resp[k])
           /\ lab.result = Pending => (n = lab.i - 1 /\ \A k \in 1..n : ~CallSucceeds(lab.resp[k]))
           /\ lab.result.kind = "quote" =>
                  /\ CallSucceeds(lab.resp[n])
                  /\ lab.result.buy_amount = lab.resp[n].amounts[Len(lab.resp[n].amounts)]
           /\ lab.result = None <=>
                  (lab.result # Pending /\ \A k \in 1..4 : ~CallSucceeds(lab.resp[k]))
           /\ lab.result = None => n = 4
           /\ lab.result # Pending => lab.result = AeroAttempts(lab.resp, lab.stable, 1)

\* the two 4-field calls failed and the first 3-field call returned a quote
C12_Witness ==
    /\ lab.fn = "router"
    /\ Len(lab.calls) = 3
    /\ lab.result.kind = "quote"

----------------------------------------------------------------------------
\* The Sink.

\* rows of the Sink that record one published Opportunity
RowsOf(a) == {i \in DOMAIN sink : sink[i].key = a.key /\ sink[i].ts = a.ts}

\* s is an initial segment of t
IsPrefix(s, t) == Len(s) <= Len(t) /\ \A i \in DOMAIN s : t[i] = s[i]

\* C14: with a Sink configured, once a scan is over every Opportunity it
\* published has exactly one row; the Sink changes only in the one commit
\* after the enumeration, and only by rows added at its end.
C14_OneRowPerPublication ==
    /\ []((pc = "sleep" /\ cfg.dsn) => \A a \in alerts : Cardinality(RowsOf(a)) = 1)
    /\ [][sink' # sink => /\ pc = "persist" /\ pc' = "sleep"
                          /\ pos = End
                          /\ IsPrefix(sink, sink')]_vars

\* keys of the Opportunities the scan at the present instant has published
PublishedNow == {a.key : a \in {b \in alerts : b.ts = now}}

\* C15: the rows a scan has in the Sink are none or one for each Opportunity
\* it published, at every moment of the scan and after it; a scan that
\* CancelledError ends at an adapter call or at the alert's send has none.
C15_NoPartialCommit ==
    /\ [](LET W == {WrittenNow[i].key : i \in DOMAIN WrittenNow}
           IN W = {} \/ W = PublishedNow)
    /\ [][(pc \in {"legA", "legB", "send"} /\ pc' = "cancelled")
             => /\ WrittenNow' = <<>>
                /\ sink' = sink]_vars

\* cancelled inside a scan that had published: nothing of it is in the Sink
C15_Witness ==
    /\ pc = "cancelled"
    /\ exc = "cancelled in scan_once"
    /\ cfg.dsn
    /\ PublishedNow # {}
    /\ WrittenNow = <<>>

\* C16: without a DSN the Sink is never written and nothing is raised for
\* it: init_schema returns and the first scan starts, the persist block
\* leaves the scan's alerts and cooldown stamps as they are and hands over
\* to the sleep, and the sleep is followed by the next scan.
C16_NoSinkIsNoOp ==
    [][~cfg.dsn =>
          /\ sink' = <<>>
          /\ pc = "start" => (pc' = "scan" /\ exc' = "none")
          /\ pc = "persist" => /\ pc' = "sleep"
                               /\ exc' = "none"
                               /\ LAST_ALERT' = LAST_ALERT
                               /\ alerts' = alerts
          /\ pc = "sleep" => pc' = "scan"]_vars

\* a scan without a DSN has published, gone through the persist block and
\* slept; the next scan is about to start
C16_Witness ==
    /\ ~cfg.dsn
    /\ pc = "scan"
    /\ now > StartTime
    /\ exc = "none"
    /\ alerts # {}
    /\ sink = <<>>

\* C17: a configuration the router cannot be built from stops the process
\* before the first scan; it is never an error of a scan that the loop logs
\* and retries.
C17_ConfigErrorFatalAtStartup ==
    /\ ~cfg.rpc => pc \in {"start", "exit"}
    /\ ~(pc = "raised" /\ exc = "config")
    /\ ~(pc \in {"sleep", "scan"} /\ exc = "config")

-----------------------------------------------------------------------------
(* pricing.to_wei and pricing.from_wei under the context precision.        *)
(* getcontext().prec is 60 (pricing.py line 6): a product or a quotient of *)
(* Decimals is rounded half-even to that many significant digits.  The     *)
(* precision is scaled to prec digits here, with amounts of fewer and of   *)
(* more digits than that.                                                  *)

prec        == 3
MaxDecimals == 3
MaxExp      == 5

\* number of significant digits of a Decimal or of an integer
SigDigits(n) == NumDigits(Strip(Abs(n)))

\* the context's rounding of the exact result x of an operation: half-even
\* to p significant digits
CtxRound(x, p) ==
    LET k == NumDigits(Abs(x.m)) - p
    IN IF k <= 0 THEN DecNorm[x]
       ELSE LET q    == Abs(x.m) \div Pow10(k)
                r    == Abs(x.m) % Pow10(k)
                half == 5 * Pow10(k - 1)
                up   == r > half \/ (r = half /\ q % 2 = 1)
                c    == Sign(x.m) * (IF up THEN q + 1 ELSE q) * Pow10(k)
            IN DecNorm[Dec(c, x.e)]

\* to_wei at precision p: amt * scale is rounded by the context, then
\* to_integral_value(ROUND_DOWN) drops the fraction
to_wei_prec(amount, decimals, p) ==
    LET prod == CtxRound(Dec(amount.m * Pow10(decimals), amount.e), p)
    IN TruncDiv(prod.m, Pow10(prod.e))

\* from_wei at precision p: Decimal(amount_wei) is exact, the quotient by
\* scale is rounded by the context
from_wei_prec(amount_wei, decimals, p) == CtxRound(Dec(amount_wei, decimals), p)

\* coefficients followed: short ones, ones of more digits than the
\* precision, ties of the rounding, long runs of nines, trailing zeros
Coefficients ==
    {0, 5, 12, 995, 999, 1005, 1015, 1234, 1235, 1245, 9995, 9999, 12000,
     12345, 99949, 99950, 99999}

Signed(S) == S \cup {-n : n \in S}

\* to_wei then from_wei of an amount, or from_wei then to_wei of an integer
PricingInit ==
    /\ EngineIdle
    /\ lab \in {[fn |-> "pricing", first |-> "to_wei", decimals |-> d, step |-> 0,
                  a0 |-> Dec(c, e), n0 |-> 0, amount |-> Dec(c, e), n |-> 0] :
                 c \in Signed(Coefficients), e \in 0..MaxExp, d \in 0..MaxDecimals}
          \cup {[fn |-> "pricing", first |-> "from_wei", decimals |-> d, step |-> 0,
                  a0 |-> DecZero, n0 |-> c, amount |-> DecZero, n |-> c] :
                 c \in Signed(Coefficients), d \in 0..MaxDecimals}

ToWei ==
    /\ lab.fn = "pricing"
    /\ \/ lab.first = "to_wei" /\ lab.step = 0
       \/ lab.first = "from_wei" /\ lab.step = 1
    /\ lab' = [lab EXCEPT !.n = to_wei_prec(lab.amount, lab.decimals, prec),
                          !.step = @ + 1]
    /\ UNCHANGED EngineVars

FromWei ==
    /\ lab.fn = "pricing"
    /\ \/ lab.first = "from_wei" /\ lab.step = 0
       \/ lab.first = "to_wei" /\ lab.step = 1
    /\ lab' = [lab EXCEPT !.amount = from_wei_prec(lab.n, lab.decimals, prec),
                          !.step = @ + 1]
    /\ UNCHANGED EngineVars

PricingNext == ToWei \/ FromWei

PricingSpec == PricingInit /\ [][PricingNext]_vars

\* n is x * 10^d with its fraction dropped: no larger in magnitude than
\* x * 10^d, less than one below it, and of its sign
IsTruncation(n, x, d) ==
    /\ Abs(n) * Pow10(x.e) <= Abs(x.m) * Pow10(d)
    /\ Abs(x.m) * Pow10(d) < (Abs(n) + 1) * Pow10(x.e)
    /\ n > 0 => x.m > 0
    /\ n < 0 => x.m < 0

\* the value of y is the integer n over 10^d
IsQuotient(y, n, d) ==
    LET e == Max(y.e, d) IN y.m * Pow10(e - y.e) = n * Pow10(e - d)

\* the round trips of the pricing functions on one input
RoundTripsExact ==
    /\ (lab.first = "to_wei" /\ lab.step >= 1) => IsTruncation(lab.n, lab.a0, lab.decimals)
    /\ (lab.first = "to_wei" /\ lab.step = 2) =>
           IsQuotient(lab.amount, lab.n, lab.decimals)
    /\ (lab.first = "from_wei" /\ lab.step >= 1) => IsQuotient(lab.amount, lab.n0, lab.decimals)
    /\ (lab.first = "from_wei" /\ lab.step = 2) => lab.n = lab.n0

-----------------------------------------------------------------------------
(* The profit model of evaluate_and_alert (lines 71-95) on two quotes of   *)
(* leg B that differ in buy_amount only.                                   *)

\* leg-B amounts as distances in base units from the amount sold
Deltas == {-2, -1, 0, 1, 2, 104, 105, 1000, 1001, 10000}

\* a leg-A quote of the aggregator and one of the router
LegAQuotes ==
    {[kind |-> "quote", buy_amount |-> 3, gas |-> DefaultGas, gas_price |-> 0,
      protocol |-> "0x"],
     [kind |-> "quote", buy_amount |-> 3, protocol |-> "Aerodrome_V1_4f", stable |-> TRUE]}

\* leg-B quote of the aggregator with the given buy_amount
LegBQuote(b) ==
    [kind |-> "quote", buy_amount |-> b, gas |-> DefaultGas, gas_price |-> 0,
     protocol |-> "0x"]

NoResult == [net_usd |-> DecZero, pass |-> FALSE]

\* sizes of 1 and 100 tokens, 0 to 3 decimals, profits of at most 10 tokens
ProfitInit ==
    /\ EngineIdle
    /\ lab \in {r \in {[fn |-> "profit", size_units |-> s, base_decimals |-> d, qa |-> a,
                         b1 |-> to_wei(s, d) + d1, b2 |-> to_wei(s, d) + d2,
                         step |-> 0, r1 |-> NoResult, r2 |-> NoResult] :
                        s \in {Dec(1, 0), Dec(100, 0)}, d \in {0, 2, 3}, a \in LegAQuotes,
                        d1 \in Deltas, d2 \in Deltas} :
                 /\ r.b1 < r.b2
                 /\ r.b2 - to_wei(r.size_units, r.base_decimals) <= 10 * Pow10(r.base_decimals)}

\* lines 71-95 for the quote of leg B with buy_amount b
Evaluated(b) ==
    LET m == Profit(lab.size_units, lab.base_decimals, lab.qa, LegBQuote(b))
    IN [net_usd |-> m.net_usd, pass |-> GatePass(m.net_usd, lab.size_units)]

EvaluateFirst ==
    /\ lab.fn = "profit"
    /\ lab.step = 0
    /\ lab' = [lab EXCEPT !.r1 = Evaluated(lab.b1), !.step = 1]
    /\ UNCHANGED EngineVars

EvaluateSecond ==
    /\ lab.fn = "profit"
    /\ lab.step = 1
    /\ lab' = [lab EXCEPT !.r2 = Evaluated(lab.b2), !.step = 2]
    /\ UNCHANGED EngineVars

ProfitNext == EvaluateFirst \/ EvaluateSecond

ProfitSpec == ProfitInit /\ [][ProfitNext]_vars

-----------------------------------------------------------------------------
(* The figures of a published Opportunity *)

\* the golden route is in hand: 1000 tokens of a six-decimals base, leg B
\* returning 1005000000 base units
GoldenInHand ==
    /\ CurSize = Dec(1000, 0)
    /\ CurPair.decimals = 6
    /\ qb.buy_amount = 1005000000

\* the figures the specification expects of the golden route
GoldenFigures(o) ==
    /\ o.gross_base = Dec(5, 0)
    /\ o.gross_bps = Dec(50, 0)
    /\ o.net_usd = Dec(45, 1)
    /\ o.roi_net_bps = Dec(45, 0)
    /\ o.gas_usd = DecZero

\* C20: for every evaluated route gross_base times 10^decimals is leg B's
\* buy_amount less the base units sold, digit for digit; the gross_bps of a
\* published Opportunity times its size is gross_base times 10000, nothing
\* truncated; the golden route outside its cooldown is published, with
\* gross_base 5, gross_bps 50, net_usd 4.5 and a net ROI of 45 bps.
C20_GrossFigures ==
    [][/\ pc = "eval" =>
              /\ IsQuotient(Profit(CurSize, CurPair.decimals, qa, qb).profit_base,
                            qb.buy_amount - to_wei(CurSize, CurPair.decimals),
                            CurPair.decimals)
              /\ (GoldenInHand /\ ~CurCooling) => pc' = "send"
       /\ (pc = "send" /\ pc' # "raised") =>
              LET o == opps'[Len(opps')]
              IN /\ Len(opps') = Len(opps) + 1
                 /\ IsQuotient(o.gross_base,
                               qb.buy_amount - to_wei(CurSize, CurPair.decimals),
                               CurPair.decimals)
                 /\ DecEQ[DecMul[o.gross_bps, o.size], DecMul[o.gross_base, Dec(10000, 0)]]
                 /\ DecEQ[DecMul[o.roi_net_bps, DecMul[o.size, USD_PER_BASE]],
                          DecMul[o.net_usd, Dec(10000, 0)]]
                 /\ GoldenInHand => GoldenFigures(o)]_vars

\* the golden route from Uniswap_V3 to SushiSwap has been published
C20_Witness ==
    \E i \in DOMAIN opps :
        /\ opps[i].leg_a = "Uniswap_V3"
        /\ opps[i].leg_b = "SushiSwap"
        /\ opps[i].size = Dec(1000, 0)
        /\ GoldenFigures(opps[i])
        /\ [key |-> opps[i].key, ts |-> opps[i].ts] \in alerts

-----------------------------------------------------------------------------
(* Gas in the profit model (lines 77-91), on the golden route with quotes  *)
(* that carry or lack gas and gas_price, with and without ETH_USD.         *)

\* a field of a quote: absent, or present with one of the values
Optional(values) == {<<>>} \cup {<<v>> : v \in values}

\* the quote with the optional fields gas and gas_price
WithGas(q, g, p) ==
    (IF g = <<>> THEN << >> ELSE [gas |-> g[1]])
    @@ (IF p = <<>> THEN << >> ELSE [gas_price |-> p[1]])
    @@ q

\* gas of 200000 or 250000 units; a gas price of 0, 1 or 2 gwei
GasQuotes(b) ==
    {WithGas([kind |-> "quote", buy_amount |-> b, protocol |-> "0x"], g, p) :
        g \in Optional({200000, 250000}), p \in Optional({0, 1000000000, 2000000000})}

GasInit ==
    /\ EngineIdle
    /\ lab \in {[fn |-> "gas", size_units |-> Dec(1000, 0), base_decimals |-> 6,
                  qa |-> a, qb |-> b, eth_usd |-> x, step |-> 0,
                  gas_price |-> 0, gas_usd |-> DecZero, net_usd |-> DecZero,
                  pass |-> FALSE] :
                 a \in GasQuotes(3), b \in GasQuotes(1005000000),
                 x \in {Dec(0, 0), Dec(3000, 0)}}

\* lines 71-95 on the quotes of the laboratory
EvaluateGas ==
    /\ lab.fn = "gas"
    /\ lab.step = 0
    /\ LET m == ProfitAt(lab.size_units, lab.base_decimals, lab.qa, lab.qb, lab.eth_usd)
       IN lab' = [lab EXCEPT !.step = 1,
                             !.gas_price = GasPrice(lab.qa, lab.qb),
                             !.gas_usd = m.gas_usd,
                             !.net_usd = m.net_usd,
                             !.pass = GatePass(m.net_usd, lab.size_units)]
    /\ UNCHANGED EngineVars

GasNext == EvaluateGas

GasSpec == GasInit /\ [][GasNext]_vars

\* gas units of the two legs, a missing figure counting 250000
LabGasUnits ==
    (IF "gas" \in DOMAIN lab.qa THEN lab.qa.gas ELSE 250000)
    + (IF "gas" \in DOMAIN lab.qb THEN lab.qb.gas ELSE 250000)

C22_GasPriceOfLegAFirst ==
    (lab.fn = "gas" /\ lab.step = 1) =>
        lab.gas_price = (IF "gas_price" \in DOMAIN lab.qa THEN lab.qa.gas_price
                         ELSE IF "gas_price" \in DOMAIN lab.qb THEN lab.qb.gas_price
                         ELSE 0)

-----------------------------------------------------------------------------
(* Routes and their keys *)

\* C23: a route that is evaluated or published has two different legs,
\* whatever the source list: names repeated, the router's own tag among them.
C23_LegsDiffer ==
    /\ pc \in {"eval", "send"} => LegATag(pos) # LegBTag(pos)
    /\ \A o \in Rows(opps) \cup Rows(sink) : o.leg_a # o.leg_b

\* the route in hand as the tuple the key is made of
CurRoute == <<PairName(CurPair), CurSize, LegATag(pos), LegBTag(pos)>>

\* tags a leg can carry under the configuration
Tags == {cfg.sources[i] : i \in DOMAIN cfg.sources} \cup {AERO}

\* the tuples of the configuration, and of a second pair and a second size
RouteTuples ==
    ({PairName(cfg.pairs[i]) : i \in DOMAIN cfg.pairs} \cup {"WETH/USDC"})
    \X ({cfg.sizes[i] : i \in DOMAIN cfg.sizes} \cup {Dec(1, 0)})
    \X Tags \X Tags

KeyOf(t) == AlertKey(t[1], t[2], t[3], t[4])

EnumeratedLegs ==
    LET Srcs == {cfg.sources[i] : i \in DOMAIN cfg.sources}
    IN {t \in Srcs \X Srcs : t[1] # t[2]}
       \cup {<<s, AERO>> : s \in Srcs}
       \cup {<<AERO, s>> : s \in Srcs}

\* the keys of the configured pairs and sizes and the enumerated legs, as
\* "pair|size|leg_a->leg_b"
ConfiguredKeys ==
    {PairName(cfg.pairs[i]) \o "|" \o DecStr(cfg.sizes[j]) \o "|" \o t[1] \o "->" \o t[2] :
        i \in DOMAIN cfg.pairs, j \in DOMAIN cfg.sizes, t \in EnumeratedLegs}

\* C25: the keys of the cooldown map are keys of configured pairs, sizes and
\* enumerated routes; no step removes a key, and no step sets a stamp back.
C25_CooldownMapGrows ==
    /\ [](DOMAIN LAST_ALERT \subseteq ConfiguredKeys)
    /\ [][/\ DOMAIN LAST_ALERT \subseteq DOMAIN LAST_ALERT'
          /\ \A k \in DOMAIN LAST_ALERT : LAST_ALERT'[k] >= LAST_ALERT[k]]_vars

\* a key published twice: its stamp has been overwritten with the later instant
C25_Witness ==
    \E i, j \in DOMAIN sink :
        /\ sink[i].key = sink[j].key
        /\ sink[i].ts < sink[j].ts
        /\ LAST_ALERT[sink[j].key] = sink[j].ts
        /\ Cardinality(DOMAIN LAST_ALERT) = 2

-----------------------------------------------------------------------------
(* Cooperative tasks on the cooldown map.  evaluate_and_alert run by       *)
(* several tasks of one event loop: a task is switched out only at an      *)
(* await, and lines 98-102 (key, clock, test, stamp) have none; the first  *)
(* await after them is the alert's send (line 114).                        *)

Tasks == {1, 2}

\* keys the tasks evaluate: a route and its reverse
TaskKeys ==
    {AlertKey("USDC/WETH", Dec(100, 0), "Uniswap_V3", "SushiSwap"),
     AlertKey("USDC/WETH", Dec(100, 0), "SushiSwap", "Uniswap_V3")}

TasksInit ==
    /\ cfg = Config(Small, <<"Uniswap_V3", "SushiSwap">>, FALSE)
    /\ pc = "lab"
    /\ pos = End
    /\ qa = None
    /\ qb = None
    /\ now = StartTime
    /\ LAST_ALERT = [k \in {} |-> 0]
    /\ opps = <<>>
    /\ sink = <<>>
    /\ alerts = {}
    /\ exc = "none"
    /\ enum = <<>>
    /\ lab = [fn |-> "tasks", at |-> [i \in Tasks |-> "idle"],
              passed |-> {}, suppressed |-> {}]

\* lines 98-102 without the stamp of line 102
TaskCheckWithoutStamp(i) ==
    /\ lab.fn = "tasks"
    /\ lab.at[i] = "idle"
    /\ \E k \in TaskKeys :
          IF InCooldown(now, LastAlert(k))
          THEN lab' = [lab EXCEPT !.suppressed = @ \cup {[key |-> k, ts |-> now, task |-> i]}]
          ELSE lab' = [lab EXCEPT !.at[i] = "send",
                                  !.passed = @ \cup {[key |-> k, ts |-> now, task |-> i]}]
    /\ UNCHANGED <<cfg, pc, pos, qa, qb, now, LAST_ALERT, opps, sink, alerts, exc, enum>>

\* task i runs lines 98-102 for a route that passed the gate, in one step:
\* inside its window the evaluation returns, outside the key is stamped and
\* the task goes on to await the send
TaskCheck(i) ==
    /\ lab.fn = "tasks"
    /\ lab.at[i] = "idle"
    /\ \E k \in TaskKeys :
          IF InCooldown(now, LastAlert(k))
          THEN /\ lab' = [lab EXCEPT !.suppressed = @ \cup {[key |-> k, ts |-> now, task |-> i]}]
               /\ UNCHANGED LAST_ALERT
          ELSE /\ LAST_ALERT' = [x \in DOMAIN LAST_ALERT \cup {k} |->
                                   IF x = k THEN now ELSE LAST_ALERT[x]]
               /\ lab' = [lab EXCEPT !.at[i] = "send",
                                     !.passed = @ \cup {[key |-> k, ts |-> now, task |-> i]}]
    /\ UNCHANGED <<cfg, pc, pos, qa, qb, now, opps, sink, alerts, exc, enum>>

\* the send task i awaits is over (line 114)
TaskSent(i) ==
    /\ lab.fn = "tasks"
    /\ lab.at[i] = "send"
    /\ lab' = [lab EXCEPT !.at[i] = "idle"]
    /\ UNCHANGED EngineVars

\* time passes while tasks run or wait
TaskTick ==
    /\ lab.fn = "tasks"
    /\ now < MaxTime
    /\ now' = now + 1
    /\ UNCHANGED <<cfg, pc, pos, qa, qb, LAST_ALERT, opps, sink, alerts, exc, enum, lab>>

TasksNext ==
    \/ \E i \in Tasks : TaskCheck(i)
    \/ \E i \in Tasks : TaskSent(i)
    \/ TaskTick

TasksSpec == TasksInit /\ [][TasksNext]_vars

\* C26: whatever the interleaving of the tasks, two evaluations of one key
\* that both pass the cooldown test are at least ALERT_COOLDOWN_S apart, and
\* the stamp of a key is the instant of its last pass.
C26_CooldownSerialized ==
    lab.fn = "tasks" =>
        /\ \A p, q \in lab.passed :
               (p # q /\ p.key = q.key) =>
                   (p.ts - q.ts >= ALERT_COOLDOWN_S \/ q.ts - p.ts >= ALERT_COOLDOWN_S)
        /\ \A p \in lab.passed :
               /\ p.key \in DOMAIN LAST_ALERT
               /\ LAST_ALERT[p.key] >= p.ts

\* while one task is suspended in the send of a key, the other task has
\* evaluated the same key at the same instant and was held back
C26_Witness ==
    /\ lab.fn = "tasks"
    /\ \E p \in lab.passed, s \in lab.suppressed :
          /\ p.key = s.key
          /\ p.ts = s.ts
          /\ p.task # s.task
          /\ p.ts = now
          /\ lab.at[p.task] = "send"

-----------------------------------------------------------------------------
(* The adapter calls of a scan *)

\* two sources, one source with a Sink, one source without the router's RPC
\* endpoint
CallsConfigs ==
    { Config(Small, <<"Uniswap_V3", "SushiSwap">>, FALSE),
      Config(Small, <<"Uniswap_V3">>, TRUE),
      NoRpc(Config(Small, <<"Uniswap_V3">>, TRUE)) }

CallsInit ==
    /\ cfg \in CallsConfigs
    /\ pc = "start"
    /\ pos = End
    /\ qa = None
    /\ qb = None
    /\ now = StartTime
    /\ LAST_ALERT = [k \in {} |-> 0]
    /\ opps = <<>>
    /\ sink = <<>>
    /\ alerts = {}
    /\ exc = "none"
    /\ enum = <<>>
    /\ lab = Counting

\* the engine with its adapter calls counted
CallsSpec == CallsInit /\ [][Next]_vars

\* 2*s*(s-1) + 2*s + 1 + s for s configured sources
CallBound == 2 * NSources * (NSources - 1) + 2 * NSources + 1 + NSources

\* the scan is over: main is in its sleep after a scan (line 284)
ScanOver == pc = "sleep"

\* the scan ran to the end of scan_once, the persist block included
SinkWriteDone == exc = "none"

CallsWithinBound ==
    \A t \in DOMAIN lab.calls :
        /\ lab.calls[t].n <= CallBound
        /\ lab.calls[t].router_a <= 1

\* C27: a scan makes at most 2*s*(s-1) + 2*s + 1 + s adapter calls per
\* (pair, size); when it is over it has asked the router for leg A exactly
\* once per (pair, size) and has gone through the Sink write.
C27_ScanCallsAndSinkWrite ==
    lab.fn = "calls" =>
        /\ CallsWithinBound
        /\ ScanOver =>
              /\ SinkWriteDone
              /\ \A t \in DOMAIN lab.calls : lab.calls[t].router_a = 1

-----------------------------------------------------------------------------
(* Stamped routes and the Sink *)

\* every key the scan at the present instant has stamped has its row
StampedAreCommitted ==
    \A k \in DecidedNow : \E i \in DOMAIN sink : sink[i].key = k /\ sink[i].ts = now

\* C28: with a Sink configured, a scan that has stamped a route key comes to
\* its end, and once it is over the Sink holds the row of every key it
\* stamped, whatever it raised after the stamp.
C28_StampedEventuallyCommitted ==
    /\ (cfg.dsn /\ pc = "send") ~> (pc = "sleep")
    /\ []((cfg.dsn /\ pc = "sleep") => StampedAreCommitted)

-----------------------------------------------------------------------------
(* Suppressed evaluations *)

\* C29: an evaluation that misses a threshold or falls inside the cooldown
\* window of its key returns without publishing and leaves the cooldown map,
\* the staged Opportunities, the alerts sent and the Sink as they were.
C29_SuppressedHasNoEffect ==
    [][(pc = "eval" /\ (~CurGate \/ CurCooling))
          => /\ pc' # "send"
             /\ LAST_ALERT' = LAST_ALERT
             /\ opps' = opps
             /\ alerts' = alerts
             /\ sink' = sink]_vars

\* a route that passes the gate is evaluated inside the window of its key
\* while the scan has another Opportunity staged
C29_Witness ==
    /\ pc = "eval"
    /\ CurGate
    /\ CurCooling
    /\ LastAlert(CurKey) < now
    /\ opps # <<>>

-----------------------------------------------------------------------------
(* A dislocation that persists *)

\* one source with a Sink, two sources without
DislocationInit ==
    /\ Init
    /\ cfg \in { Config(Small, <<"Uniswap_V3">>, TRUE),
                 Config(Small, <<"Uniswap_V3", "SushiSwap">>, FALSE) }

\* leg A is quoted: the venue answers with a positive amount
QuotedLegA ==
    /\ LegA
    /\ Truthy(qa')
    /\ qa'.buy_amount > 0

\* leg B is quoted and the route passes the profit gate
QuotedLegB ==
    /\ LegB
    /\ pc' = "eval"
    /\ CurGate'

\* the engine while every route passes the profit gate on every scan; the
\* alert's send may still raise
DislocationNext ==
    \/ Startup
    \/ ScanStart
    \/ QuotedLegA
    \/ QuotedLegB
    \/ Evaluate
    \/ AlertSent
    \/ AlertFailed
    \/ Persist
    \/ Logged
    \/ Sleep
    \/ SleepOn

\* scans keep running
DislocationSpec ==
    DislocationInit /\ [][DislocationNext]_vars /\ WF_vars(DislocationNext)

DislocationKeys ==
    {"USDC/WETH|100|" \o a \o "->" \o b : a, b \in {"Uniswap_V3", "SushiSwap", AERO}}

====
